---- MODULE Spec2Model ----
(***************************************************************************)
(* Contribution aggregation engine of github-stats-cards:                  *)
(* fetch_contributor_stats (src/github/fetcher.py) with the collaborators  *)
(* it calls: GitHubClient (src/github/client.py), the exception hierarchy  *)
(* (src/exceptions.py), calculate_repo_rank (src/github/rank.py) and       *)
(* is_repo_excluded (src/core/utils.py).                                   *)
(*                                                                         *)
(* Strings the code inspects character by character (logins, repository    *)
(* names, exclusion patterns) are sequences of one-character strings, so   *)
(* that lower(), split("/") and fnmatch are computed, not assumed.         *)
(***************************************************************************)
EXTENDS Integers, Sequences, FiniteSets, TLC

(***************************************************************************)
(* Bounds of the model.                                                    *)
(***************************************************************************)
\* longest list of contribution years the years query reports
MaxYears == 6
\* an account whose selected years number at most MaxDataYears may carry
\* contribution entries; longer histories are explored with empty listings
MaxDataYears == 2
\* total number of contribution entries all per-year responses of a run carry
MaxEntries == 2
\* largest config.limit explored
MaxLimit == 2

(***************************************************************************)
(* Program constants.                                                      *)
(***************************************************************************)
\* target_years = sorted(years, reverse=True)[:5]
YEAR_CAP == 5

Min(a, b) == IF a <= b THEN a ELSE b

(***************************************************************************)
(* str.lower() over the alphabet of the model.                             *)
(***************************************************************************)
LowerChar(c) ==
    CASE c = "U" -> "u"
      [] c = "Y" -> "y"
      [] c = "Z" -> "z"
      [] c = "A" -> "a"
      [] c = "B" -> "b"
      [] OTHER -> c

Lower(s) == [i \in 1..Len(s) |-> LowerChar(s[i])]

(***************************************************************************)
(* Exception classes: the repository's hierarchy, the classes of the       *)
(* requests library that the transport raises, and the builtins raised by  *)
(* dictionary access on an unexpected payload.                             *)
(***************************************************************************)
ExcParent ==
    [c \in {"GitHubStatsCardError", "APIError", "FetchError", "LanguageFetchError",
            "ValidationError", "RenderError", "ThemeError", "ColorError",
            "RequestException", "ConnectionError", "Timeout", "HTTPError",
            "KeyError", "AttributeError", "TypeError", "Exception"} |->
        CASE c = "GitHubStatsCardError" -> "Exception"
          [] c = "APIError" -> "GitHubStatsCardError"
          [] c = "FetchError" -> "APIError"
          [] c = "LanguageFetchError" -> "APIError"
          [] c = "ValidationError" -> "GitHubStatsCardError"
          [] c = "RenderError" -> "GitHubStatsCardError"
          [] c = "ThemeError" -> "GitHubStatsCardError"
          [] c = "ColorError" -> "ValidationError"
          [] c = "RequestException" -> "Exception"
          [] c = "ConnectionError" -> "RequestException"
          [] c = "Timeout" -> "RequestException"
          [] c = "HTTPError" -> "RequestException"
          [] c = "KeyError" -> "Exception"
          [] c = "AttributeError" -> "Exception"
          [] c = "TypeError" -> "Exception"
          [] OTHER -> "Exception"]

RECURSIVE IsSubclass(_, _)
\* isinstance(an error of class c, d): c is d or derives from it
IsSubclass(c, d) ==
    IF c = d THEN TRUE
    ELSE IF c = "Exception" THEN FALSE
    ELSE IsSubclass(ExcParent[c], d)

\* what requests.post / raise_for_status can do: answer, or raise one of these
TransportOutcomes == {"ok", "ConnectionError", "Timeout", "HTTPError"}

\* GitHubClient.graphql_query: the class it raises ("none": it returns the JSON)
GraphqlQuery(t) ==
    IF t = "ok" THEN "none"
    ELSE IF IsSubclass(t, "RequestException") THEN "APIError"
    ELSE t

(***************************************************************************)
(* Inputs.                                                                 *)
(***************************************************************************)
\* config.username
Username == <<"U">>

RECURSIVE Ascending(_)
\* <<1, ..., n>>
Ascending(n) == IF n = 0 THEN <<>> ELSE Append(Ascending(n - 1), n)

\* s rotated left by r places
Rotate(s, r) == [i \in 1..Len(s) |-> s[((i - 1 + r) % Len(s)) + 1]]

\* the contributionYears lists the years query may report: distinct years,
\* in ascending order or rotated (neither is the order the code needs)
YearLists ==
    {<<>>} \cup {Rotate(Ascending(n), r) : n \in 1..MaxYears, r \in {0, 1}}

\* payload shapes of the years response (fetcher.py:352-359)
YearsShapes == {"ok", "no_data_key", "data_null", "user_null", "no_collection_key"}

\* payload shapes of a per-year response (fetcher.py:481-491)
ContribShapes == {"ok", "no_data_key", "data_null", "user_null", "collection_null"}

\* the four process_list calls of a year, in call order (fetcher.py:541-544)
ContribTypes == <<"commits", "prs", "issues", "reviews">>

\* repo.get("object") is None, or the object has no "history"
NoHistory == -1

Entry(name, owner, private, stars, avatar, history, count, missing) ==
    [nameWithOwner |-> name, ownerLogin |-> owner, isPrivate |-> private,
     stars |-> stars, avatarUrl |-> avatar, history |-> history,
     count |-> count, missing |-> missing]

\* well-formed entries of a contribution list: three repositories of other
\* owners (two with equal stars), one that turned private, one owned by the
\* queried account under another letter case; the commit history of a
\* repository may have another total in another response
Entries ==
    { Entry(<<"z", "/", "a">>, <<"z">>, FALSE, 150, "av_z", 6000, 1, "none"),
      Entry(<<"z", "/", "a">>, <<"z">>, FALSE, 150, "av_z", NoHistory, 2, "none"),
      Entry(<<"z", "/", "a">>, <<"z">>, FALSE, 150, "av_z", 6000, 0, "none"),
      Entry(<<"z", "/", "a">>, <<"z">>, FALSE, 150, "av_z", 50, 1, "none"),
      Entry(<<"z", "/", "a">>, <<"z">>, TRUE, 150, "av_z", NoHistory, 1, "none"),
      Entry(<<"Y", "/", "B">>, <<"Y">>, FALSE, 20000, "", 50, 1, "none"),
      Entry(<<"y", "/", "a">>, <<"y">>, FALSE, 150, "av_y", NoHistory, 1, "none"),
      Entry(<<"u", "/", "b">>, <<"u">>, FALSE, 7, "av_u", 50, 1, "none") }

\* entries of an unexpected shape: the "repository" or "contributions" key
\* is absent
MalformedEntries ==
    { Entry(<<"z", "/", "a">>, <<"z">>, FALSE, 150, "av_z", NoHistory, 1, "repository"),
      Entry(<<"z", "/", "a">>, <<"z">>, FALSE, 150, "av_z", NoHistory, 1, "contributions") }

\* length of the content an avatar request answers with
ImageContents == {0, 3}

\* config.exclude_repo
ExcludeLists ==
    { <<>>,
      << <<"A">> >>,
      << <<"z", "/", "*">> >>,
      << <<"?">>, <<"y", "/", "b">> >> }

(***************************************************************************)
(* Year discovery, fetcher.py:350-361.                                     *)
(***************************************************************************)
\* YearsStep without the test for "errors" in the payload
YearsStep_IgnoreErrors(t, p) ==
    LET q == GraphqlQuery(t)
        body == IF q # "none" THEN q
                ELSE IF p.shape = "data_null" THEN "AttributeError"
                ELSE IF p.shape \in {"no_data_key", "user_null"} THEN "FetchError"
                ELSE IF p.shape = "no_collection_key" THEN "KeyError"
                ELSE "none"
    IN  IF body # "none" /\ IsSubclass(body, "RequestException")
        THEN "FetchError"
        ELSE body

\* YearsStep without the test for a missing user: None is subscripted
YearsStep_NoUserCheck(t, p) ==
    LET q == GraphqlQuery(t)
        body == IF q # "none" THEN q
                ELSE IF p.errors THEN "FetchError"
                ELSE IF p.shape = "data_null" THEN "AttributeError"
                ELSE IF p.shape \in {"no_data_key", "user_null"} THEN "TypeError"
                ELSE IF p.shape = "no_collection_key" THEN "KeyError"
                ELSE "none"
    IN  IF body # "none" /\ IsSubclass(body, "RequestException")
        THEN "FetchError"
        ELSE body

\* the class the try block raises for transport outcome t and payload p,
\* after its except clause ("none": the years were read)
YearsStep(t, p) ==
    LET q == GraphqlQuery(t)
        body == IF q # "none" THEN q
                ELSE IF p.errors THEN "FetchError"
                ELSE IF p.shape = "data_null" THEN "AttributeError"
                ELSE IF p.shape \in {"no_data_key", "user_null"} THEN "FetchError"
                ELSE IF p.shape = "no_collection_key" THEN "KeyError"
                ELSE "none"
    IN  IF body # "none" /\ IsSubclass(body, "RequestException")
        THEN "FetchError"
        ELSE body

RECURSIVE InsertDesc(_, _)
\* y inserted into the descending sequence s
InsertDesc(s, y) ==
    IF s = <<>> THEN <<y>>
    ELSE IF y > Head(s) THEN <<y>> \o s
    ELSE <<Head(s)>> \o InsertDesc(Tail(s), y)

RECURSIVE SortedDesc(_)
\* sorted(years, reverse=True)
SortedDesc(s) ==
    IF s = <<>> THEN <<>> ELSE InsertDesc(SortedDesc(Tail(s)), Head(s))

\* TargetYears falling back to one year when none is reported
TargetYears_DefaultYear(ys) ==
    IF ys = <<>> THEN <<1>> ELSE SubSeq(SortedDesc(ys), 1, Min(YEAR_CAP, Len(ys)))

\* target_years = sorted(years, reverse=True)[:5]
TargetYears(ys) == SubSeq(SortedDesc(ys), 1, Min(YEAR_CAP, Len(ys)))

(***************************************************************************)
(* One year, fetcher.py:476-548.                                           *)
(***************************************************************************)
\* YearStep treating "errors" in a year's payload as the years query does
YearStep_ErrorsAbort(t, p) ==
    LET q == GraphqlQuery(t)
        body == IF q # "none" THEN [do |-> "raise", cls |-> q]
                ELSE IF p.errors THEN [do |-> "raise", cls |-> "FetchError"]
                ELSE IF p.shape = "data_null"
                     THEN [do |-> "raise", cls |-> "AttributeError"]
                ELSE IF p.shape \in {"no_data_key", "user_null", "collection_null"}
                     THEN [do |-> "skip", cls |-> "none"]
                ELSE [do |-> "process", cls |-> "none"]
    IN  IF body.do = "raise" /\ IsSubclass(body.cls, "RequestException")
        THEN [do |-> "skip", cls |-> "none"]
        ELSE body

\* what the try block does with the year's response before any list is
\* processed: raise a class, skip the year ("continue"), or go on to the
\* process_list calls
YearStep(t, p) ==
    LET q == GraphqlQuery(t)
        body == IF q # "none" THEN [do |-> "raise", cls |-> q]
                ELSE IF p.errors THEN [do |-> "skip", cls |-> "none"]
                ELSE IF p.shape = "data_null"
                     THEN [do |-> "raise", cls |-> "AttributeError"]
                ELSE IF p.shape \in {"no_data_key", "user_null", "collection_null"}
                     THEN [do |-> "skip", cls |-> "none"]
                ELSE [do |-> "process", cls |-> "none"]
    IN  IF body.do = "raise" /\ IsSubclass(body.cls, "RequestException")
        THEN [do |-> "skip", cls |-> "none"]
        ELSE body

\* index of the record called name in the map, 0 when there is none
IndexOf(map, name) ==
    IF \E i \in 1..Len(map) : map[i].name = name
    THEN CHOOSE i \in 1..Len(map) : map[i].name = name
    ELSE 0

\* the record process_list creates for a repository it has not seen
FreshRecord(e) ==
    [name |-> e.nameWithOwner,
     stars |-> e.stars,
     avatar_url |-> e.avatarUrl,
     commits |-> 0, prs |-> 0, issues |-> 0, reviews |-> 0,
     total_repo_commits |-> IF e.history # NoHistory THEN e.history ELSE 0]

\* ProcessItem without the test "name not in raw_repos_map"
ProcessItem_NoDedup(map, e, contrib_type) ==
    IF e.missing # "none" THEN [cls |-> "KeyError", map |-> map]
    ELSE IF e.count = 0 THEN [cls |-> "none", map |-> map]
    ELSE IF e.isPrivate THEN [cls |-> "none", map |-> map]
    ELSE IF Lower(e.ownerLogin) = Lower(Username) THEN [cls |-> "none", map |-> map]
    ELSE [cls |-> "none",
          map |-> Append(map, [FreshRecord(e) EXCEPT ![contrib_type] = e.count])]

\* ProcessItem storing the commit-history total of every entry that has one
ProcessItem_OverwriteTotal(map, e, contrib_type) ==
    IF e.missing # "none" THEN [cls |-> "KeyError", map |-> map]
    ELSE IF e.count = 0 THEN [cls |-> "none", map |-> map]
    ELSE IF e.isPrivate THEN [cls |-> "none", map |-> map]
    ELSE IF Lower(e.ownerLogin) = Lower(Username) THEN [cls |-> "none", map |-> map]
    ELSE
      LET i == IndexOf(map, e.nameWithOwner)
          m1 == IF i = 0 THEN Append(map, FreshRecord(e))
                ELSE IF e.history # NoHistory
                     THEN [map EXCEPT ![i].total_repo_commits = e.history]
                     ELSE map
          j == IF i = 0 THEN Len(m1) ELSE i
      IN  [cls |-> "none",
           map |-> [m1 EXCEPT ![j][contrib_type] = @ + e.count]]

\* ProcessItem storing the count of the entry instead of adding it
ProcessItem_AssignCount(map, e, contrib_type) ==
    IF e.missing # "none" THEN [cls |-> "KeyError", map |-> map]
    ELSE IF e.count = 0 THEN [cls |-> "none", map |-> map]
    ELSE IF e.isPrivate THEN [cls |-> "none", map |-> map]
    ELSE IF Lower(e.ownerLogin) = Lower(Username) THEN [cls |-> "none", map |-> map]
    ELSE
      LET i == IndexOf(map, e.nameWithOwner)
          m1 == IF i = 0 THEN Append(map, FreshRecord(e))
                ELSE IF map[i].total_repo_commits = 0 /\ e.history # NoHistory
                     THEN [map EXCEPT ![i].total_repo_commits = e.history]
                     ELSE map
          j == IF i = 0 THEN Len(m1) ELSE i
      IN  [cls |-> "none",
           map |-> [m1 EXCEPT ![j][contrib_type] = e.count]]

\* ProcessItem adding every count to the commits counter
ProcessItem_AllToCommits(map, e, contrib_type) ==
    IF e.missing # "none" THEN [cls |-> "KeyError", map |-> map]
    ELSE IF e.count = 0 THEN [cls |-> "none", map |-> map]
    ELSE IF e.isPrivate THEN [cls |-> "none", map |-> map]
    ELSE IF Lower(e.ownerLogin) = Lower(Username) THEN [cls |-> "none", map |-> map]
    ELSE
      LET i == IndexOf(map, e.nameWithOwner)
          m1 == IF i = 0 THEN Append(map, FreshRecord(e))
                ELSE IF map[i].total_repo_commits = 0 /\ e.history # NoHistory
                     THEN [map EXCEPT ![i].total_repo_commits = e.history]
                     ELSE map
          j == IF i = 0 THEN Len(m1) ELSE i
      IN  [cls |-> "none",
           map |-> [m1 EXCEPT ![j].commits = @ + e.count]]

\* ProcessItem without the test on a count of 0
ProcessItem_NoZeroFilter(map, e, contrib_type) ==
    IF e.missing # "none" THEN [cls |-> "KeyError", map |-> map]
    ELSE IF e.isPrivate THEN [cls |-> "none", map |-> map]
    ELSE IF Lower(e.ownerLogin) = Lower(Username) THEN [cls |-> "none", map |-> map]
    ELSE
      LET i == IndexOf(map, e.nameWithOwner)
          m1 == IF i = 0 THEN Append(map, FreshRecord(e))
                ELSE IF map[i].total_repo_commits = 0 /\ e.history # NoHistory
                     THEN [map EXCEPT ![i].total_repo_commits = e.history]
                     ELSE map
          j == IF i = 0 THEN Len(m1) ELSE i
      IN  [cls |-> "none",
           map |-> [m1 EXCEPT ![j][contrib_type] = @ + e.count]]

\* ProcessItem without the filter on private repositories
ProcessItem_NoPrivateFilter(map, e, contrib_type) ==
    IF e.missing # "none" THEN [cls |-> "KeyError", map |-> map]
    ELSE IF e.count = 0 THEN [cls |-> "none", map |-> map]
    ELSE IF Lower(e.ownerLogin) = Lower(Username) THEN [cls |-> "none", map |-> map]
    ELSE
      LET i == IndexOf(map, e.nameWithOwner)
          m1 == IF i = 0 THEN Append(map, FreshRecord(e))
                ELSE IF map[i].total_repo_commits = 0 /\ e.history # NoHistory
                     THEN [map EXCEPT ![i].total_repo_commits = e.history]
                     ELSE map
          j == IF i = 0 THEN Len(m1) ELSE i
      IN  [cls |-> "none",
           map |-> [m1 EXCEPT ![j][contrib_type] = @ + e.count]]

\* one iteration of process_list's loop (fetcher.py:495-539) on raw_repos_map:
\* the class it raises and the map it leaves
ProcessItem(map, item, contrib_type) ==
    IF item.missing # "none" THEN [cls |-> "KeyError", map |-> map]
    ELSE IF item.count = 0 THEN [cls |-> "none", map |-> map]
    ELSE IF item.isPrivate THEN [cls |-> "none", map |-> map]
    ELSE IF Lower(item.ownerLogin) = Lower(Username) THEN [cls |-> "none", map |-> map]
    ELSE
      LET i == IndexOf(map, item.nameWithOwner)
          m1 == IF i = 0 THEN Append(map, FreshRecord(item))
                ELSE IF map[i].total_repo_commits = 0 /\ item.history # NoHistory
                     THEN [map EXCEPT ![i].total_repo_commits = item.history]
                     ELSE map
          j == IF i = 0 THEN Len(m1) ELSE i
      IN  [cls |-> "none",
           map |-> [m1 EXCEPT ![j][contrib_type] = @ + item.count]]

\* calculate_repo_rank with thresholds that include their bound
calculate_repo_rank_InclusiveTiers(stars, total_repo_commits) ==
    LET base_rank == IF stars >= 10000 THEN "S"
                     ELSE IF stars >= 1000 THEN "A"
                     ELSE IF stars >= 100 THEN "B"
                     ELSE IF stars >= 10 THEN "C"
                     ELSE "D"
        modifier == IF total_repo_commits > 5000 THEN "+"
                    ELSE IF 0 < total_repo_commits /\ total_repo_commits < 100 THEN "-"
                    ELSE ""
    IN  base_rank \o modifier

\* calculate_repo_rank with "+" from 5000 commits on
calculate_repo_rank_InclusivePlus(stars, total_repo_commits) ==
    LET base_rank == IF stars > 10000 THEN "S"
                     ELSE IF stars > 1000 THEN "A"
                     ELSE IF stars > 100 THEN "B"
                     ELSE IF stars > 10 THEN "C"
                     ELSE "D"
        modifier == IF total_repo_commits >= 5000 THEN "+"
                    ELSE IF 0 < total_repo_commits /\ total_repo_commits < 100 THEN "-"
                    ELSE ""
    IN  base_rank \o modifier

\* calculate_repo_rank with "-" for every total under 100, 0 included
calculate_repo_rank_ZeroDowngrade(stars, total_repo_commits) ==
    LET base_rank == IF stars > 10000 THEN "S"
                     ELSE IF stars > 1000 THEN "A"
                     ELSE IF stars > 100 THEN "B"
                     ELSE IF stars > 10 THEN "C"
                     ELSE "D"
        modifier == IF total_repo_commits > 5000 THEN "+"
                    ELSE IF total_repo_commits < 100 THEN "-"
                    ELSE ""
    IN  base_rank \o modifier

\* calculate_repo_rank with no "-" in tier D
calculate_repo_rank_NoDMinus(stars, total_repo_commits) ==
    LET base_rank == IF stars > 10000 THEN "S"
                     ELSE IF stars > 1000 THEN "A"
                     ELSE IF stars > 100 THEN "B"
                     ELSE IF stars > 10 THEN "C"
                     ELSE "D"
        modifier == IF total_repo_commits > 5000 THEN "+"
                    ELSE IF 0 < total_repo_commits /\ total_repo_commits < 100 THEN "-"
                    ELSE ""
    IN  IF base_rank = "D" /\ modifier = "-" THEN "D" ELSE base_rank \o modifier

(***************************************************************************)
(* Ranking, exclusion, ordering: fetcher.py:550-568.                       *)
(***************************************************************************)
\* calculate_repo_rank, rank.py:123-154
calculate_repo_rank(stars, total_repo_commits) ==
    LET base_rank == IF stars > 10000 THEN "S"
                     ELSE IF stars > 1000 THEN "A"
                     ELSE IF stars > 100 THEN "B"
                     ELSE IF stars > 10 THEN "C"
                     ELSE "D"
        modifier == IF total_repo_commits > 5000 THEN "+"
                    ELSE IF 0 < total_repo_commits /\ total_repo_commits < 100 THEN "-"
                    ELSE ""
    IN  base_rank \o modifier

RECURSIVE GlobMatch(_, _)
\* fnmatch.fnmatch(s, p) for patterns of literals, "?" and "*"
GlobMatch(s, p) ==
    IF p = <<>> THEN s = <<>>
    ELSE IF Head(p) = "*"
         THEN GlobMatch(s, Tail(p)) \/ (s # <<>> /\ GlobMatch(Tail(s), p))
    ELSE /\ s # <<>>
         /\ (Head(p) = "?" \/ Head(p) = Head(s))
         /\ GlobMatch(Tail(s), Tail(p))

HasSlash(s) == \E i \in 1..Len(s) : s[i] = "/"

\* s.split("/")[-1]
LastSegment(s) ==
    LET cut == CHOOSE i \in 0..Len(s) :
                   /\ (i = 0 \/ s[i] = "/")
                   /\ \A j \in (i + 1)..Len(s) : s[j] # "/"
    IN  SubSeq(s, cut + 1, Len(s))

\* is_repo_excluded matching every pattern against the full name
is_repo_excluded_FullNameOnly(repo_name, exclude_patterns) ==
    \E k \in 1..Len(exclude_patterns) :
        GlobMatch(Lower(repo_name), Lower(exclude_patterns[k]))

\* is_repo_excluded without pattern.lower()
is_repo_excluded_NoPatternLower(repo_name, exclude_patterns) ==
    LET name == Lower(repo_name)
        repo_name_only == IF HasSlash(name) THEN LastSegment(name) ELSE name
    IN  \E k \in 1..Len(exclude_patterns) :
            LET pattern == exclude_patterns[k]
            IN  IF ~HasSlash(pattern)
                THEN GlobMatch(repo_name_only, pattern)
                ELSE GlobMatch(name, pattern)

\* is_repo_excluded, core/utils.py:43-71
is_repo_excluded(repo_name, exclude_patterns) ==
    LET name == Lower(repo_name)
        repo_name_only == IF HasSlash(name) THEN LastSegment(name) ELSE name
    IN  \E k \in 1..Len(exclude_patterns) :
            LET pattern == Lower(exclude_patterns[k])
            IN  IF ~HasSlash(pattern)
                THEN GlobMatch(repo_name_only, pattern)
                ELSE GlobMatch(name, pattern)

RECURSIVE InsertByStars_BeforeEqual(_, _)
\* r placed before the records with as many stars
InsertByStars_BeforeEqual(s, r) ==
    IF s = <<>> THEN <<r>>
    ELSE IF Head(s).stars > r.stars
         THEN <<Head(s)>> \o InsertByStars_BeforeEqual(Tail(s), r)
    ELSE <<r>> \o s

RECURSIVE InsertByStars(_, _)
\* r placed after every record with at least as many stars
InsertByStars(s, r) ==
    IF s = <<>> THEN <<r>>
    ELSE IF Head(s).stars >= r.stars THEN <<Head(s)>> \o InsertByStars(Tail(s), r)
    ELSE <<r>> \o s

\* no sort: the records stay in their order of insertion
SortByStars_None(s) == s

RECURSIVE SortByStars(_)
\* list.sort(key=stars, reverse=True): stable, equal stars keep their order
SortByStars(s) ==
    IF s = <<>> THEN <<>>
    ELSE InsertByStars(SortByStars(SubSeq(s, 1, Len(s) - 1)), s[Len(s)])

\* the rank_level computed without the commit-history total
Ranked_StarsOnly(map) ==
    [i \in 1..Len(map) |->
        [name |-> map[i].name, stars |-> map[i].stars,
         avatar_url |-> map[i].avatar_url,
         commits |-> map[i].commits, prs |-> map[i].prs,
         issues |-> map[i].issues, reviews |-> map[i].reviews,
         total_repo_commits |-> map[i].total_repo_commits,
         rank_level |-> calculate_repo_rank(map[i].stars, 0)]]

\* fetcher.py:552-556: every record of the map with its rank_level
Ranked(map) ==
    [i \in 1..Len(map) |->
        [name |-> map[i].name, stars |-> map[i].stars,
         avatar_url |-> map[i].avatar_url,
         commits |-> map[i].commits, prs |-> map[i].prs,
         issues |-> map[i].issues, reviews |-> map[i].reviews,
         total_repo_commits |-> map[i].total_repo_commits,
         rank_level |-> calculate_repo_rank(map[i].stars, map[i].total_repo_commits)]]

\* no record is excluded
FilterExcluded_None(rs, exclude_repo) == rs

\* fetcher.py:559-561
FilterExcluded(rs, exclude_repo) ==
    SelectSeq(rs, LAMBDA r : ~is_repo_excluded(r.name, exclude_repo))

\* the list is cut to limit before the excluded records are dropped
FinalReposData_LimitBeforeFilter(map, exclude_repo, limit) ==
    LET sorted == SortByStars(Ranked(map))
    IN  FilterExcluded(SubSeq(sorted, 1, Min(limit, Len(sorted))), exclude_repo)

\* fetcher.py:550-568: final_repos_data before the avatars are fetched
FinalReposData(map, exclude_repo, limit) ==
    LET sorted == SortByStars(FilterExcluded(Ranked(map), exclude_repo))
    IN  SubSeq(sorted, 1, Min(limit, Len(sorted)))

\* fetch_image without its except clause
FetchImage_NoExcept(t, content) ==
    IF t = "ok" THEN <<"bytes", content>> ELSE <<"raise", t>>

\* GitHubClient.fetch_image, client.py:76-94: the content, or None
FetchImage(t, content) ==
    IF t = "ok" THEN <<"bytes", content>>
    ELSE IF IsSubclass(t, "RequestException") THEN <<"None">>
    ELSE <<"raise", t>>

\* fetcher.py:573-590: the output record of repo for the fetched image
ContributorRepo(repo, image_data) ==
    [name |-> repo.name, stars |-> repo.stars,
     commits |-> repo.commits, prs |-> repo.prs,
     issues |-> repo.issues, reviews |-> repo.reviews,
     rank_level |-> repo.rank_level,
     avatar_b64 |-> IF repo.avatar_url # "" /\ image_data[1] = "bytes" /\ image_data[2] > 0
                    THEN <<"b64", image_data[2]>>
                    ELSE <<"None">>]

(***************************************************************************)
(* State of one run of fetch_contributor_stats.                            *)
(***************************************************************************)
VARIABLES
    pc,               \* position: "years", "year" (top of the for loop),
                      \* "list" (inside the process_list calls of a year),
                      \* "avatars", "returned", "raised"
    raised,           \* class of the error the run raised, "none" otherwise
    years,            \* contributionYears as reported
    target_years,     \* the years the loop iterates over
    yi,               \* index in target_years of the year at hand
    kind,             \* index in ContribTypes of the process_list call at hand
    li,               \* number of items that call has processed
    item,             \* the item that call is at (its loop variable)
    raw_repos_map,    \* the accumulator, in insertion order
    exclude_repo,     \* config.exclude_repo, drawn when the run first reads it
    limit,            \* config.limit, drawn when the run first reads it
    final_repos_data, \* ranked, filtered, sorted, truncated records
    final_repos,      \* the output list under construction
    budget,           \* entries the remaining responses may still carry
    years_in,         \* history: transport outcome and payload of the years query
    year_in,          \* history: the same for the latest per-year query,
                      \* with what the list processing met since
    saw,              \* history: kinds of per-year responses met so far
    ref_map,          \* history: accumulator of the years that succeeded
    sums,             \* history: per repository name and contribution type,
                      \* the counts of the entries of public repositories
                      \* of other owners that process_list has met
    queries,          \* history: years of the per-year queries issued
    avatar_calls,     \* history: the avatar requests issued and their results
    pf                \* the call at hand in the specifications of the
                      \* functions checked on their own (merge order, ranks)

vars == <<pc, raised, years, target_years, yi, kind, li, item, raw_repos_map,
          exclude_repo, limit, final_repos_data, final_repos, budget,
          years_in, year_in, saw, ref_map, sums, queries, avatar_calls, pf>>

Unset ==
    [t |-> "unset", errors |-> FALSE, shape |-> "unset", met |-> "none",
     reported |-> <<>>]

\* no item at hand
NoItem == Entry(<<>>, <<>>, FALSE, 0, "", NoHistory, 0, "unset")

RepoNames == {e.nameWithOwner : e \in Entries}

TypeSet == {ContribTypes[k] : k \in 1..Len(ContribTypes)}

\* the repository of the entry is public and owned by another account
\* (logins are compared without regard to letter case)
ForeignPublic(e) ==
    /\ ~e.isPrivate
    /\ Lower(e.ownerLogin) # Lower(Username)

\* no function is being checked on its own
NoCall == [op |-> "none"]

\* fetch_contributor_stats has been called and has done nothing yet
MainInit ==
    /\ pc = "years"
    /\ raised = "none"
    /\ years = <<>>
    /\ target_years = <<>>
    /\ yi = 1
    /\ kind = 1
    /\ li = 0
    /\ item = NoItem
    /\ raw_repos_map = <<>>
    /\ exclude_repo = <<>>
    /\ limit = 0
    /\ final_repos_data = <<>>
    /\ final_repos = <<>>
    /\ budget = 0
    /\ years_in = Unset
    /\ year_in = Unset
    /\ saw = [errors |-> FALSE, ok |-> FALSE, other |-> FALSE]
    /\ ref_map = <<>>
    /\ sums = [x \in RepoNames \X TypeSet |-> 0]
    /\ queries = <<>>
    /\ avatar_calls = <<>>

Init ==
    /\ MainInit
    /\ pf = NoCall

\* the inputs of a query: a transport outcome and, when it answers, a payload
QueryInputs(shapes) ==
    { [t |-> t, errors |-> e, shape |-> sh, met |-> "none", reported |-> <<>>] :
        t \in TransportOutcomes, e \in BOOLEAN, sh \in shapes }

\* fetcher.py:350-367: the years query and the choice of the target years
FetchYears ==
    /\ pc = "years"
    /\ \E in \in QueryInputs(YearsShapes), ys \in YearLists :
        /\ in.t = "ok" \/ (~in.errors /\ in.shape = "ok")
        /\ in.shape = "ok" \/ ys = <<>>
        /\ in.t = "ok" \/ ys = <<>>
        /\ years_in' = [in EXCEPT !.reported = ys]
        /\ LET cls == YearsStep(in.t, in)
           IN  IF cls # "none"
               THEN /\ pc' = "raised"
                    /\ raised' = cls
                    /\ UNCHANGED <<years, target_years, budget>>
               ELSE /\ pc' = "year"
                    /\ years' = ys
                    /\ target_years' = TargetYears(ys)
                    /\ budget' = IF Len(TargetYears(ys)) <= MaxDataYears
                                 THEN MaxEntries ELSE 0
                    /\ UNCHANGED raised
    /\ UNCHANGED <<yi, kind, li, item, raw_repos_map, exclude_repo, limit,
                   final_repos_data, final_repos, year_in, saw, ref_map, sums,
                   queries, avatar_calls>>
    /\ UNCHANGED pf

\* fetcher.py:369-491: the query of the next target year, up to the first
\* process_list call
FetchYear ==
    /\ pc = "year"
    /\ yi <= Len(target_years)
    /\ \E in \in QueryInputs(ContribShapes) :
        /\ in.t = "ok" \/ (~in.errors /\ in.shape = "ok")
        /\ year_in' = in
        /\ queries' = Append(queries, target_years[yi])
        /\ saw' = IF in.t = "ok" /\ in.errors
                  THEN [saw EXCEPT !.errors = TRUE]
                  ELSE IF in.t = "ok" /\ in.shape = "ok"
                  THEN [saw EXCEPT !.ok = TRUE]
                  ELSE [saw EXCEPT !.other = TRUE]
        /\ LET step == YearStep(in.t, in)
           IN  CASE step.do = "raise" ->
                     /\ pc' = "raised"
                     /\ raised' = step.cls
                     /\ UNCHANGED <<yi, kind, li>>
                 [] step.do = "skip" ->
                     /\ pc' = "year"
                     /\ yi' = yi + 1
                     /\ UNCHANGED <<raised, kind, li>>
                 [] step.do = "process" ->
                     /\ pc' = "list"
                     /\ kind' = 1
                     /\ li' = 0
                     /\ UNCHANGED <<raised, yi>>
    /\ UNCHANGED <<years, target_years, item, raw_repos_map, exclude_repo, limit,
                   final_repos_data, final_repos, budget, years_in, ref_map,
                   sums, avatar_calls>>
    /\ UNCHANGED pf

\* the year at hand answered with a well-formed payload without "errors"
YearSucceeded == year_in.t = "ok" /\ ~year_in.errors /\ year_in.shape = "ok"

\* fetcher.py:495-539: process_list handles the next item of its list
ProcessListItem ==
    /\ pc = "list"
    /\ budget > 0
    /\ \E e \in Entries \cup MalformedEntries :
        LET r == ProcessItem(raw_repos_map, e, ContribTypes[kind])
        IN  /\ budget' = budget - 1
            /\ item' = e
            /\ li' = li + 1
            /\ raw_repos_map' = r.map
            /\ IF e.missing # "none"
               THEN /\ year_in' = [year_in EXCEPT !.met = "entry_malformed"]
                    /\ saw' = [saw EXCEPT !.other = TRUE]
                    /\ UNCHANGED <<ref_map, sums>>
               ELSE /\ ref_map' = IF YearSucceeded
                                  THEN ProcessItem(ref_map, e, ContribTypes[kind]).map
                                  ELSE ref_map
                    /\ sums' = IF ForeignPublic(e)
                               THEN [sums EXCEPT
                                       ![<<e.nameWithOwner, ContribTypes[kind]>>] =
                                           @ + e.count]
                               ELSE sums
                    /\ UNCHANGED <<year_in, saw>>
            /\ IF r.cls # "none"
               THEN /\ pc' = "raised"
                    /\ raised' = r.cls
               ELSE UNCHANGED <<pc, raised>>
    /\ UNCHANGED <<years, target_years, yi, kind, exclude_repo, limit,
                   final_repos_data, final_repos, years_in, queries, avatar_calls>>
    /\ UNCHANGED pf

\* fetcher.py:541-544: the collection lacks the key of the list a
\* process_list call is about to receive
MissingList ==
    /\ pc = "list"
    /\ li = 0
    /\ pc' = "raised"
    /\ raised' = "KeyError"
    /\ year_in' = [year_in EXCEPT !.met = "list_missing"]
    /\ saw' = [saw EXCEPT !.other = TRUE]
    /\ UNCHANGED <<years, target_years, yi, kind, li, item, raw_repos_map,
                   exclude_repo, limit, final_repos_data, final_repos, budget,
                   years_in, ref_map, sums, queries, avatar_calls>>
    /\ UNCHANGED pf

\* fetcher.py:495, 541-544: the list at hand is exhausted; the next
\* process_list call, or the next year
EndList ==
    /\ pc = "list"
    /\ item' = NoItem
    /\ IF kind < Len(ContribTypes)
       THEN /\ kind' = kind + 1
            /\ li' = 0
            /\ UNCHANGED <<pc, yi>>
       ELSE /\ pc' = "year"
            /\ yi' = yi + 1
            /\ UNCHANGED <<kind, li>>
    /\ UNCHANGED <<raised, years, target_years, raw_repos_map, exclude_repo, limit,
                   final_repos_data, final_repos, budget, years_in, year_in, saw,
                   ref_map, sums, queries, avatar_calls>>
    /\ UNCHANGED pf

\* fetcher.py:550-568: the loop is over; rank, filter, sort, truncate
Finalize ==
    /\ pc = "year"
    /\ yi > Len(target_years)
    /\ pc' = "avatars"
    /\ \E ex \in ExcludeLists, lim \in 0..MaxLimit :
        /\ exclude_repo' = ex
        /\ limit' = lim
        /\ final_repos_data' = FinalReposData(raw_repos_map, ex, lim)
    /\ UNCHANGED <<raised, years, target_years, yi, kind, li, item, raw_repos_map,
                   final_repos, budget, years_in, year_in,
                   saw, ref_map, sums, queries, avatar_calls>>
    /\ UNCHANGED pf

\* FetchAvatar asking for the avatar of every record, empty URL or not
FetchAvatar_EmptyUrlToo ==
    /\ pc = "avatars"
    /\ Len(final_repos) < Len(final_repos_data)
    /\ LET repo == final_repos_data[Len(final_repos) + 1]
       IN  IF TRUE
           THEN \E t \in TransportOutcomes, content \in ImageContents :
                  LET image_data == FetchImage(t, content)
                  IN  /\ t = "ok" \/ content = 0
                      /\ avatar_calls' =
                           Append(avatar_calls, [url |-> repo.avatar_url,
                                                 repo |-> repo.name,
                                                 image_data |-> image_data])
                      /\ IF image_data[1] = "raise"
                         THEN /\ pc' = "raised"
                              /\ raised' = image_data[2]
                              /\ UNCHANGED final_repos
                         ELSE /\ final_repos' =
                                   Append(final_repos, ContributorRepo(repo, image_data))
                              /\ UNCHANGED <<pc, raised>>
           ELSE /\ final_repos' = Append(final_repos, ContributorRepo(repo, <<"None">>))
                /\ UNCHANGED <<pc, raised, avatar_calls>>
    /\ UNCHANGED <<years, target_years, yi, kind, li, item,
                   raw_repos_map, exclude_repo, limit, final_repos_data, budget,
                   years_in, year_in, saw, ref_map, sums, queries>>
    /\ UNCHANGED pf

\* fetcher.py:572-590: the avatar of the next surviving record
FetchAvatar ==
    /\ pc = "avatars"
    /\ Len(final_repos) < Len(final_repos_data)
    /\ LET repo == final_repos_data[Len(final_repos) + 1]
       IN  IF repo.avatar_url # ""
           THEN \E t \in TransportOutcomes, content \in ImageContents :
                  LET image_data == FetchImage(t, content)
                  IN  /\ t = "ok" \/ content = 0
                      /\ avatar_calls' =
                           Append(avatar_calls, [url |-> repo.avatar_url,
                                                 repo |-> repo.name,
                                                 image_data |-> image_data])
                      /\ IF image_data[1] = "raise"
                         THEN /\ pc' = "raised"
                              /\ raised' = image_data[2]
                              /\ UNCHANGED final_repos
                         ELSE /\ final_repos' =
                                   Append(final_repos, ContributorRepo(repo, image_data))
                              /\ UNCHANGED <<pc, raised>>
           ELSE /\ final_repos' = Append(final_repos, ContributorRepo(repo, <<"None">>))
                /\ UNCHANGED <<pc, raised, avatar_calls>>
    /\ UNCHANGED <<years, target_years, yi, kind, li, item,
                   raw_repos_map, exclude_repo, limit, final_repos_data, budget,
                   years_in, year_in, saw, ref_map, sums, queries>>
    /\ UNCHANGED pf

\* fetcher.py:592
Return ==
    /\ pc = "avatars"
    /\ Len(final_repos) = Len(final_repos_data)
    /\ pc' = "returned"
    /\ UNCHANGED <<raised, years, target_years, yi, kind, li, item, raw_repos_map,
                   exclude_repo, limit, final_repos_data, final_repos, budget,
                   years_in, year_in, saw, ref_map, sums, queries, avatar_calls>>
    /\ UNCHANGED pf

Next ==
    \/ FetchYears
    \/ FetchYear
    \/ ProcessListItem
    \/ MissingList
    \/ EndList
    \/ Finalize
    \/ FetchAvatar
    \/ Return

Spec == Init /\ [][Next]_vars

(***************************************************************************)
(* The merge of whole years, checked on its own: the responses of the      *)
(* years are given, and they are merged into one accumulator in any order. *)
(***************************************************************************)
\* number of years whose responses are merged
MaxMergeYears == 2
\* number of entries a response carries in this specification
MaxYearItems == 1

mainvars == <<pc, raised, years, target_years, yi, kind, li, item, raw_repos_map,
              exclude_repo, limit, final_repos_data, final_repos, budget,
              years_in, year_in, saw, ref_map, sums, queries, avatar_calls>>

\* the entries of a successful response in the order the four process_list
\* calls meet them: each with the index of its contribution type
YearItems == [type : 1..Len(ContribTypes), entry : Entries]

RECURSIVE SeqsUpTo(_, _)
\* the sequences over S of length at most n
SeqsUpTo(S, n) ==
    IF n = 0 THEN {<<>>}
    ELSE LET shorter == SeqsUpTo(S, n - 1)
         IN  shorter \cup {Append(q, x) : q \in shorter, x \in S}

YearResponses ==
    {r \in SeqsUpTo(YearItems, MaxYearItems) :
        \A i \in 1..(Len(r) - 1) : r[i].type <= r[i + 1].type}

RECURSIVE MergeYear(_, _)
\* fetcher.py:541-544: the four process_list calls of one successful year
MergeYear(map, items) ==
    IF items = <<>> THEN map
    ELSE MergeYear(ProcessItem(map, Head(items).entry,
                               ContribTypes[Head(items).type]).map,
                   Tail(items))

RECURSIVE MergeAll(_, _)
\* fetcher.py:369-548: the years merged one after the other, as listed
MergeAll(map, responses) ==
    IF responses = <<>> THEN map
    ELSE MergeAll(MergeYear(map, Head(responses)), Tail(responses))

InitMerge ==
    /\ MainInit
    /\ \E rs \in [1..MaxMergeYears -> YearResponses] :
         pf = [op |-> "merge", responses |-> rs, order |-> <<>>, acc |-> <<>>]

\* the response of a year not merged yet is merged into the accumulator
MergeOneYear ==
    /\ pf.op = "merge"
    /\ \E y \in 1..Len(pf.responses) :
        /\ \A i \in 1..Len(pf.order) : pf.order[i] # y
        /\ pf' = [pf EXCEPT !.order = Append(@, y),
                            !.acc = MergeYear(@, pf.responses[y])]
    /\ UNCHANGED mainvars

NextMerge == MergeOneYear

SpecMerge == InitMerge /\ [][NextMerge]_vars

(***************************************************************************)
(* calculate_repo_rank, checked on its own: one call on given arguments.   *)
(***************************************************************************)
\* star counts on both sides of every threshold of the tiers
RankStars == {0, 1, 10, 11, 100, 101, 1000, 1001, 10000, 10001, 20000}

\* commit totals on both sides of every threshold of the modifiers
RankCommits == {0, 1, 50, 99, 100, 101, 200, 1000, 5000, 5001, 6000}

InitRank ==
    /\ MainInit
    /\ \E st \in RankStars, c \in RankCommits :
         pf = [op |-> "rank", stars |-> st, total_repo_commits |-> c,
               done |-> FALSE, rank_level |-> ""]

\* the call returns
RepoRank ==
    /\ pf.op = "rank"
    /\ ~pf.done
    /\ pf' = [pf EXCEPT !.done = TRUE,
                        !.rank_level = calculate_repo_rank(pf.stars,
                                                           pf.total_repo_commits)]
    /\ UNCHANGED mainvars

NextRank == RepoRank

SpecRank == InitRank /\ [][NextRank]_vars

(***************************************************************************)
(* calculate_user_rank, checked on its own.  The inputs are taken where    *)
(* every CDF value is a multiple of 1/SCALE, so that the floating-point    *)
(* computation of the code is exact on them up to the last rounding, and   *)
(* the percentile is kept as the integer percentile * 12 * SCALE.          *)
(***************************************************************************)
\* the largest count of an exponential input, in medians
MaxHalvings == 3

RECURSIVE Pow2(_)
Pow2(n) == IF n = 0 THEN 1 ELSE 2 * Pow2(n - 1)

\* rank.py:75-89: the weights and their sum
TOTAL_WEIGHT == 2 + 3 + 1 + 1 + 4 + 1

\* common denominator of the CDF values of the inputs below
SCALE == Pow2(MaxHalvings) * 4

\* rank.py:76
COMMITS_MEDIAN(all_commits) == IF all_commits THEN 1000 ELSE 250

\* exponential_cdf(n / median), rank.py:13-23: 1 - 2**-x, in 1/SCALE units;
\* n is a multiple of median
exponential_cdf(n, median) ==
    LET x == n \div median
    IN  IF x >= 0 THEN SCALE - SCALE \div Pow2(x)
        ELSE SCALE - SCALE * Pow2(0 - x)

\* x / (1 + x) turned into 1 / (1 + x)
log_normal_cdf_Inverse(n, median) == SCALE - (n * SCALE) \div (n + median)

\* log_normal_cdf(n / median), rank.py:26-36: x / (1 + x), in 1/SCALE units;
\* n + median divides n * SCALE
log_normal_cdf(n, median) == (n * SCALE) \div (n + median)

\* rank.py:106: twice the thresholds
THRESHOLDS == <<2, 25, 50, 75, 100, 125, 150, 175, 200>>

\* rank.py:107
LEVELS == <<"S", "A+", "A", "A-", "B+", "B", "B-", "C+", "C">>

\* percentile <= THRESHOLDS[i], percentile in 1/(12 * SCALE) units
AtMost(percentile, i) == 2 * percentile <= THRESHOLDS[i] * TOTAL_WEIGHT * SCALE

\* the loop of rank.py:113-117 with "<" for "<="
FindLevel_Strict(percentile) ==
    LET hits == {i \in 1..Len(THRESHOLDS) :
                    2 * percentile < THRESHOLDS[i] * TOTAL_WEIGHT * SCALE}
    IN  IF hits = {} THEN "C"
        ELSE LEVELS[CHOOSE i \in hits : \A j \in hits : i <= j]

\* rank.py:112-117: the level of the first threshold the percentile is under
FindLevel(percentile) ==
    LET hits == {i \in 1..Len(THRESHOLDS) : AtMost(percentile, i)}
    IN  IF hits = {} THEN "C"
        ELSE LEVELS[CHOOSE i \in hits : \A j \in hits : i <= j]

\* rank.py:39-120; percentile in 1/(12 * SCALE) units
calculate_user_rank(commits, prs, issues, reviews, stars, followers, all_commits) ==
    LET weighted == 2 * exponential_cdf(commits, COMMITS_MEDIAN(all_commits))
                    + 3 * exponential_cdf(prs, 50)
                    + 1 * exponential_cdf(issues, 25)
                    + 1 * exponential_cdf(reviews, 2)
                    + 4 * log_normal_cdf(stars, 50)
                    + 1 * log_normal_cdf(followers, 10)
        \* rank = 1 - weighted / TOTAL_WEIGHT, in 1/(12 * SCALE) units
        rank == TOTAL_WEIGHT * SCALE - weighted
        percentile == rank * 100
    IN  [level |-> FindLevel(percentile), percentile |-> percentile]

\* the counts of an exponential input of the given median
Halvings(median) == {x * median : x \in 0..MaxHalvings}

\* inputs whose log_normal_cdf is 0, 1/2 or 3/4
Quarters(median) == {0, median, 3 * median}

\* the values of metric m; a negative count of commits among them
MetricValues(m, all_commits) ==
    CASE m = "commits" -> Halvings(COMMITS_MEDIAN(all_commits))
                          \cup {0 - COMMITS_MEDIAN(all_commits)}
      [] m = "prs" -> Halvings(50)
      [] m = "issues" -> Halvings(25)
      [] m = "reviews" -> Halvings(2)
      [] m = "stars" -> Quarters(50)
      [] m = "followers" -> Quarters(10)

Metrics == {"commits", "prs", "issues", "reviews", "stars", "followers"}

UserRankArgs ==
    UNION {[commits : MetricValues("commits", ac), prs : MetricValues("prs", ac),
            issues : MetricValues("issues", ac), reviews : MetricValues("reviews", ac),
            stars : MetricValues("stars", ac), followers : MetricValues("followers", ac),
            all_commits : {ac}] : ac \in BOOLEAN}

RankOf(a) ==
    calculate_user_rank(a.commits, a.prs, a.issues, a.reviews, a.stars,
                        a.followers, a.all_commits)

NoRank == [level |-> "", percentile |-> 0]

InitUserRank ==
    /\ MainInit
    /\ \E a \in UserRankArgs :
         pf = [op |-> "user_rank", args |-> a, calls |-> 0, result |-> NoRank,
               was |-> a, before |-> NoRank, grown |-> ""]

\* the call returns
UserRank ==
    /\ pf.op = "user_rank"
    /\ pf.calls = 0
    /\ pf' = [pf EXCEPT !.calls = 1, !.result = RankOf(pf.args)]
    /\ UNCHANGED mainvars

\* a second call, one metric being larger than in the first
UserRankGrown ==
    /\ pf.op = "user_rank"
    /\ pf.calls = 1
    /\ \E m \in Metrics :
        \E v \in MetricValues(m, pf.args.all_commits) :
            /\ v > pf.args[m]
            /\ pf' = [pf EXCEPT !.calls = 2, !.args = [pf.args EXCEPT ![m] = v],
                                !.grown = m, !.was = pf.args, !.before = pf.result,
                                !.result = RankOf([pf.args EXCEPT ![m] = v])]
    /\ UNCHANGED mainvars

NextUserRank ==
    \/ UserRank
    \/ UserRankGrown

SpecUserRank == InitUserRank /\ [][NextUserRank]_vars

(***************************************************************************)
(* is_repo_excluded, checked on its own: a call, then calls on the same    *)
(* arguments in another letter case.                                       *)
(***************************************************************************)
\* number of patterns of a list
MaxPatterns == 2

UpperChar(c) ==
    CASE c = "u" -> "U"
      [] c = "y" -> "Y"
      [] c = "z" -> "Z"
      [] c = "a" -> "A"
      [] c = "b" -> "B"
      [] OTHER -> c

RECURSIVE CaseVariants(_)
\* the strings that differ from s in letter case only
CaseVariants(s) ==
    IF s = <<>> THEN {<<>>}
    ELSE {<<c>> \o t : c \in {LowerChar(Head(s)), UpperChar(LowerChar(Head(s)))},
                       t \in CaseVariants(Tail(s))}

\* repository names: with an owner, without one, and one whose owner is the
\* name of another
ExcludeNames ==
    UNION {CaseVariants(n) : n \in {<<"z", "/", "a">>, <<"y", "/", "b">>, <<"a">>,
                                     <<"a", "/", "z">>, <<"z", "a">>}}

\* patterns with and without "/", literal and with wildcards
ExcludePatterns ==
    UNION {CaseVariants(q) : q \in {<<"a">>, <<"z", "/", "*">>, <<"*", "a">>, <<"?">>,
                                     <<"y", "/", "b">>, <<"a", "*">>}}

InitExcluded ==
    /\ MainInit
    /\ \E n \in ExcludeNames, ps \in SeqsUpTo(ExcludePatterns, MaxPatterns) :
         pf = [op |-> "excluded", repo_name |-> n, exclude_patterns |-> ps,
               calls |-> 0, result |-> FALSE, before |-> FALSE]

\* the call returns
IsRepoExcluded ==
    /\ pf.op = "excluded"
    /\ pf.calls = 0
    /\ pf' = [pf EXCEPT !.calls = 1,
                        !.result = is_repo_excluded(pf.repo_name, pf.exclude_patterns)]
    /\ UNCHANGED mainvars

\* a further call, the name being in another letter case
RecaseName ==
    /\ pf.op = "excluded"
    /\ pf.calls >= 1
    /\ \E n \in CaseVariants(pf.repo_name) \ {pf.repo_name} :
         pf' = [pf EXCEPT !.calls = 2, !.repo_name = n, !.before = pf.result,
                         !.result = is_repo_excluded(n, pf.exclude_patterns)]
    /\ UNCHANGED mainvars

\* a further call, one pattern being in another letter case
RecasePattern ==
    /\ pf.op = "excluded"
    /\ pf.calls >= 1
    /\ \E k \in 1..Len(pf.exclude_patterns) :
        \E q \in CaseVariants(pf.exclude_patterns[k]) \ {pf.exclude_patterns[k]} :
            LET ps == [pf.exclude_patterns EXCEPT ![k] = q]
            IN  pf' = [pf EXCEPT !.calls = 2, !.exclude_patterns = ps,
                                !.before = pf.result,
                                !.result = is_repo_excluded(pf.repo_name, ps)]
    /\ UNCHANGED mainvars

NextExcluded ==
    \/ IsRepoExcluded
    \/ RecaseName
    \/ RecasePattern

SpecExcluded == InitExcluded /\ [][NextExcluded]_vars

(***************************************************************************)
(* fetch_stats, fetcher.py:203-251: the pages of owned repositories after  *)
(* the first response, which had a user.                                   *)
(***************************************************************************)
\* number of further pages a run may ask for
MaxPages == 3

\* sum of the star counts of the repositories of one page
PageStars == {0, 3, 20}

\* a page response: with a user, or without one
PageShapes == {"user", "no_user"}

\* fetcher.py:232-250: what the body of the loop does on transport outcome
\* t and a response of shape p: add the page, break, or raise
PageStep(t, p) ==
    LET q == GraphqlQuery(t)
        body == IF q # "none" THEN [do |-> "raise", cls |-> q]
                ELSE IF p = "user" THEN [do |-> "add", cls |-> "none"]
                ELSE [do |-> "break", cls |-> "none"]
    IN  IF body.do = "raise" /\ IsSubclass(body.cls, "RequestException")
        THEN [do |-> "break", cls |-> "none"]
        ELSE body

InitStats ==
    /\ MainInit
    /\ \E st \in PageStars, more \in BOOLEAN :
         pf = [op |-> "stats", pc |-> "pages", total_stars |-> st,
               has_next_page |-> more, end_cursor |-> 1,
               fetched |-> st, requests |-> <<>>, failed |-> FALSE,
               no_user |-> FALSE, raised |-> "none"]

\* fetcher.py:209-250: one iteration of `while has_next_page`
StatsFetchPage ==
    /\ pf.op = "stats"
    /\ pf.pc = "pages"
    /\ pf.has_next_page
    /\ Len(pf.requests) < MaxPages
    /\ \E t \in TransportOutcomes, p \in PageShapes, st \in PageStars, more \in BOOLEAN :
        LET r == PageStep(t, p)
            asked == [pf EXCEPT !.requests = Append(@, pf.end_cursor),
                                !.failed = @ \/ t # "ok",
                                !.no_user = @ \/ (t = "ok" /\ p = "no_user")]
        IN  /\ (t # "ok" \/ p = "no_user") => (st = 0 /\ ~more)
            /\ pf' = IF r.do = "raise"
                     THEN [asked EXCEPT !.pc = "raised", !.raised = r.cls]
                     ELSE IF r.do = "break"
                     THEN [asked EXCEPT !.has_next_page = FALSE]
                     ELSE [asked EXCEPT !.total_stars = @ + st,
                                        !.fetched = @ + st,
                                        !.has_next_page = more,
                                        !.end_cursor = @ + 1]
    /\ UNCHANGED mainvars

\* fetcher.py:252-323: the loop is left and fetch_stats returns totalStars
StatsReturn ==
    /\ pf.op = "stats"
    /\ pf.pc = "pages"
    /\ ~pf.has_next_page
    /\ pf' = [pf EXCEPT !.pc = "returned"]
    /\ UNCHANGED mainvars

NextStats ==
    \/ StatsFetchPage
    \/ StatsReturn

SpecStats == InitStats /\ [][NextStats]_vars

(***************************************************************************)
(* Properties of fetch_contributor_stats.                                  *)
(***************************************************************************)
\* the years query answered with a well-formed payload without "errors"
YearsResolved ==
    years_in.t = "ok" /\ ~years_in.errors /\ years_in.shape = "ok"

\* an output or candidate record without its avatar fields
Core(r) ==
    [name |-> r.name, stars |-> r.stars, commits |-> r.commits, prs |-> r.prs,
     issues |-> r.issues, reviews |-> r.reviews, rank_level |-> r.rank_level]

CoreSeq(rs) == [i \in 1..Len(rs) |-> Core(rs[i])]

DistinctNames(rs) ==
    \A i, j \in 1..Len(rs) : i # j => rs[i].name # rs[j].name

\* C1: when every per-year response of a run is either a GraphQL "errors"
\* payload or a well-formed success, the run does not raise, and the list
\* it returns is the one computed from the accumulator of the successful
\* years alone.
C1_PartialYearFailure ==
    (YearsResolved /\ ~saw.other) =>
        /\ pc # "raised"
        /\ pc = "returned" =>
             CoreSeq(final_repos) =
                 CoreSeq(FinalReposData(ref_map, exclude_repo, limit))

\* C1 witness: two years, the first answered with "errors", the second
\* successfully, and a non-empty result returned.
C1_Witness ==
    /\ pc = "returned"
    /\ YearsResolved
    /\ ~saw.other
    /\ saw.errors
    /\ Len(queries) = 2
    /\ YearSucceeded
    /\ final_repos # <<>>

\* C2 (as claimed): a transport failure during the query of a selected
\* year never makes the run raise.
C2_TransportFailureSkipped ==
    (year_in.t \notin {"unset", "ok"}) => pc # "raised"

\* C3 (as claimed): a per-year response of unexpected shape ("data" null,
\* a per-kind list absent, an entry without "repository" or
\* "contributions") never makes the run raise.
C3_MalformedYearSkipped ==
    (\/ (year_in.t = "ok" /\ ~year_in.errors /\ year_in.shape = "data_null")
     \/ year_in.met # "none")
        => pc # "raised"

\* C4 (as claimed): when the transport fails during the years query, the
\* run fails with an error of kind FetchError.
C4_YearsTransportIsFetchError ==
    (years_in.t \notin {"unset", "ok"}) =>
        (pc = "raised" /\ IsSubclass(raised, "FetchError"))

\* C5: when the years response carries "errors", the run has raised
\* FetchError and has issued no per-year query and no avatar request.
C5_FailFastOnYearsErrors ==
    (years_in.t = "ok" /\ years_in.errors) =>
        /\ pc = "raised"
        /\ raised = "FetchError"
        /\ queries = <<>>
        /\ avatar_calls = <<>>

\* C5 witness: a years response with "errors" that also reports years.
C5_Witness ==
    /\ years_in.t = "ok"
    /\ years_in.errors
    /\ years_in.reported # <<>>
    /\ pc = "raised"

C7_NoYearsEmptyResult ==
    (YearsResolved /\ years_in.reported = <<>>) =>
        /\ pc \in {"year", "avatars", "returned"}
        /\ raised = "none"
        /\ queries = <<>>
        /\ avatar_calls = <<>>
        /\ final_repos = <<>>

\* C7 witness: the run of such an account has returned.
C7_Witness ==
    /\ YearsResolved
    /\ years_in.reported = <<>>
    /\ pc = "returned"

\* q holds the min(5, n) largest of the years ys, each once, in descending order
IsSelection(q, ys) ==
    LET reported == {ys[i] : i \in 1..Len(ys)}
        queried == {q[i] : i \in 1..Len(q)}
    IN  /\ Len(q) = Min(5, Len(ys))
        /\ queried \subseteq reported
        /\ \A i \in 1..(Len(q) - 1) : q[i] > q[i + 1]
        /\ \A y \in reported \ queried : \A i \in 1..Len(q) : y < q[i]

\* C8 (as claimed): the per-year queries a run has issued when it ends are
\* one for each of the min(5, n) most recent reported years, in descending
\* order, whether the queries succeeded or failed.
C8_YearSelection ==
    (YearsResolved /\ pc \in {"avatars", "returned", "raised"}) =>
        IsSelection(queries, years_in.reported)

\* C9: the accumulator and the output never hold two records of one
\* repository name; a repository with contributions has exactly one record,
\* whose commits counter is the total of its commit entries and whose prs
\* counter is the total of its pull-request entries.
C9_Deduplication ==
    /\ DistinctNames(raw_repos_map)
    /\ DistinctNames(final_repos_data)
    /\ DistinctNames(final_repos)
    /\ \A n \in RepoNames :
         (\E k \in TypeSet : sums[<<n, k>>] > 0) =>
             Cardinality({i \in 1..Len(raw_repos_map) : raw_repos_map[i].name = n}) = 1
    /\ \A i \in 1..Len(raw_repos_map) :
         /\ raw_repos_map[i].commits = sums[<<raw_repos_map[i].name, "commits">>]
         /\ raw_repos_map[i].prs = sums[<<raw_repos_map[i].name, "prs">>]
    /\ \A i \in 1..Len(final_repos) :
         /\ final_repos[i].commits = sums[<<final_repos[i].name, "commits">>]
         /\ final_repos[i].prs = sums[<<final_repos[i].name, "prs">>]

\* C9 witness: one year listed a repository under commits with count 1 and
\* under pull requests with count 2, and the output holds its record.
C9_Witness ==
    /\ pc = "returned"
    /\ Len(queries) = 1
    /\ \E i \in 1..Len(final_repos) :
         /\ final_repos[i].commits = 1
         /\ final_repos[i].prs = 2
         /\ final_repos[i].issues = 0
         /\ final_repos[i].reviews = 0

\* C10: every record of the accumulator and of the output has the name of a
\* public repository of another owner met with a positive count, and a step
\* of process_list on an entry of a private repository or of a repository
\* owned by the queried account leaves the accumulator as it was.
C10_PrivateAndOwnDiscarded ==
    /\ [](/\ \A i \in 1..Len(raw_repos_map) :
               \E k \in TypeSet : sums[<<raw_repos_map[i].name, k>>] > 0
          /\ \A i \in 1..Len(final_repos) :
               \E k \in TypeSet : sums[<<final_repos[i].name, k>>] > 0)
    /\ [][(pc' = "list" /\ li' = li + 1 /\ ~ForeignPublic(item'))
             => raw_repos_map' = raw_repos_map]_vars

\* C10 witness: process_list is at an entry of a private repository whose
\* name already has a record from the time it was public.
C10_Witness ==
    /\ pc = "list"
    /\ item.missing = "none"
    /\ item.isPrivate
    /\ item.count > 0
    /\ \E i \in 1..Len(raw_repos_map) : raw_repos_map[i].name = item.nameWithOwner

\* C11: a step never changes a total_repo_commits that is not 0; a
\* total_repo_commits that changes was 0 and becomes the commit-history
\* total of the entry being merged.
C11_TotalRepoCommitsWriteOnce ==
    [][/\ Len(raw_repos_map') >= Len(raw_repos_map)
       /\ \A i \in 1..Len(raw_repos_map) :
            /\ raw_repos_map'[i].name = raw_repos_map[i].name
            /\ raw_repos_map[i].total_repo_commits # 0 =>
                 raw_repos_map'[i].total_repo_commits =
                     raw_repos_map[i].total_repo_commits
            /\ raw_repos_map'[i].total_repo_commits #
                   raw_repos_map[i].total_repo_commits =>
                 /\ raw_repos_map[i].total_repo_commits = 0
                 /\ item'.nameWithOwner = raw_repos_map[i].name
                 /\ raw_repos_map'[i].total_repo_commits = item'.history]_vars

\* C11 witness: process_list has merged an entry whose commit history has
\* another total than the one its record already held.
C11_Witness ==
    /\ pc = "list"
    /\ item.missing = "none"
    /\ item.count > 0
    /\ ForeignPublic(item)
    /\ item.history # NoHistory
    /\ \E i \in 1..Len(raw_repos_map) :
         /\ raw_repos_map[i].name = item.nameWithOwner
         /\ raw_repos_map[i].total_repo_commits # 0
         /\ raw_repos_map[i].total_repo_commits # item.history

\* the records of an accumulator, whatever their order of insertion
RecordsOf(map) == {map[i] : i \in 1..Len(map)}

\* the keys of an accumulator with the four counters of each
CountersOf(map) ==
    {[name |-> map[i].name, commits |-> map[i].commits, prs |-> map[i].prs,
      issues |-> map[i].issues, reviews |-> map[i].reviews] : i \in 1..Len(map)}

\* every year reports a repository with the same stars, the same avatar URL
\* and, where it reports a commit history, the same total
SameMetadata(responses) ==
    LET es == UNION {{responses[y][i].entry : i \in DOMAIN responses[y]} :
                        y \in DOMAIN responses}
        merged == {e \in es : e.count > 0 /\ ForeignPublic(e)}
    IN  \A e1 \in merged, e2 \in merged :
            e1.nameWithOwner = e2.nameWithOwner =>
                /\ e1.stars = e2.stars
                /\ e1.avatarUrl = e2.avatarUrl
                /\ (e1.history # NoHistory /\ e2.history # NoHistory) =>
                      e1.history = e2.history

AllMerged == pf.op = "merge" /\ Len(pf.order) = Len(pf.responses)

\* C12 as stated: whatever the order in which the years are merged, the
\* accumulator holds the same keys with the same stars, avatar URL,
\* total_repo_commits and counters as the merge in the listed order.
C12_MergeOrderIndependent ==
    AllMerged => RecordsOf(pf.acc) = RecordsOf(MergeAll(<<>>, pf.responses))

\* C12 amended: whatever the order in which the years are merged, the
\* accumulator holds the same keys with the same four counters; stars, avatar
\* URL and total_repo_commits are also the same when the years agree on the
\* metadata of every repository.
C12_CountersOrderIndependent ==
    AllMerged =>
        /\ CountersOf(pf.acc) = CountersOf(MergeAll(<<>>, pf.responses))
        /\ SameMetadata(pf.responses) =>
              RecordsOf(pf.acc) = RecordsOf(MergeAll(<<>>, pf.responses))

\* C12 witness: two years that report the same repository, only the second
\* with a commit history, have been merged second year first.
C12_Witness ==
    /\ AllMerged
    /\ pf.order[1] = 2
    /\ SameMetadata(pf.responses)
    /\ \E r \in RecordsOf(pf.acc) :
         r.total_repo_commits # 0 /\ r.commits = 2 /\ r.prs = 1

\* the run is past the assembly of final_repos_data
Assembled == pc \in {"avatars", "returned"}

\* the accumulated records that match no pattern of config.exclude_repo
Candidates ==
    {i \in 1..Len(raw_repos_map) :
        ~is_repo_excluded(raw_repos_map[i].name, exclude_repo)}

NamesOf(rs) == {rs[i].name : i \in 1..Len(rs)}

\* C13: no assembled or returned record is excluded by config.exclude_repo;
\* every accumulated record that matches no pattern is in the list unless
\* the limit cut it; when every accumulated record matches, the list is
\* empty.
C13_ExclusionFiltering ==
    /\ Assembled =>
        /\ \A n \in NamesOf(final_repos_data) \cup NamesOf(final_repos) :
              ~is_repo_excluded(n, exclude_repo)
        /\ limit >= Cardinality(Candidates) =>
              NamesOf(final_repos_data) = {raw_repos_map[i].name : i \in Candidates}
        /\ Candidates = {} => final_repos_data = <<>>
    /\ pc = "returned" => NamesOf(final_repos) = NamesOf(final_repos_data)

\* C13 witness: a run has returned one of two accumulated repositories, the
\* other one being excluded, under a limit that cuts nothing.
C13_Witness ==
    /\ pc = "returned"
    /\ Len(raw_repos_map) = 2
    /\ limit >= 2
    /\ Cardinality(Candidates) = 1
    /\ Len(final_repos) = 1

\* C13 witness of the empty result: every accumulated repository is excluded.
C13_WitnessAllExcluded ==
    /\ pc = "returned"
    /\ Len(raw_repos_map) = 2
    /\ limit >= 2
    /\ Candidates = {}
    /\ final_repos = <<>>

NonIncreasingStars(rs) ==
    \A i \in 1..(Len(rs) - 1) : rs[i].stars >= rs[i + 1].stars

\* C14: the assembled list and the returned list are ordered by stars,
\* non-increasing, whatever the rank levels and the order of first sight.
C14_OrderedByStars ==
    Assembled => NonIncreasingStars(final_repos_data) /\ NonIncreasingStars(final_repos)

\* C14 witness: a run has returned two repositories, the one with more stars
\* first, that it had first seen in the other order.
C14_Witness ==
    /\ pc = "returned"
    /\ Len(final_repos) = 2
    /\ final_repos[1].stars > final_repos[2].stars
    /\ raw_repos_map[1].name = final_repos[2].name
    /\ raw_repos_map[1].stars < raw_repos_map[2].stars

\* C15: the list has exactly min(limit, k) records, k the number of
\* accumulated records that are not excluded, and no omitted record that is
\* not excluded has more stars than a listed one.
C15_Limit ==
    Assembled =>
        /\ Len(final_repos_data) = Min(limit, Cardinality(Candidates))
        /\ pc = "returned" => Len(final_repos) = Min(limit, Cardinality(Candidates))
        /\ \A i \in Candidates :
              raw_repos_map[i].name \notin NamesOf(final_repos_data) =>
                \A j \in 1..Len(final_repos_data) :
                    raw_repos_map[i].stars <= final_repos_data[j].stars

\* C15 witness: under limit 1 a run has returned the repository with the most
\* stars of two that are not excluded.
C15_Witness ==
    /\ pc = "returned"
    /\ limit = 1
    /\ Cardinality(Candidates) = 2
    /\ Len(final_repos) = 1
    /\ \E i \in Candidates : raw_repos_map[i].stars < final_repos[1].stars

\* C15 witness of the slots: under limit 1 a run has returned the second of
\* two accumulated repositories, the first one being excluded.
C15_WitnessExcludedTakesNoSlot ==
    /\ pc = "returned"
    /\ limit = 1
    /\ Len(raw_repos_map) = 2
    /\ Candidates = {2}
    /\ raw_repos_map[1].stars >= raw_repos_map[2].stars
    /\ Len(final_repos) = 1

\* C16: a run never raises once it has asked for an avatar; the record whose
\* avatar request yielded None is listed with avatar_b64 None and its other
\* fields as assembled; the record whose request yielded content carries that
\* content; the returned list holds every assembled record.
C16_AvatarFailureNotFatal ==
    /\ pc = "raised" => avatar_calls = <<>>
    /\ \A i \in 1..Len(final_repos) :
          Core(final_repos[i]) = Core(final_repos_data[i])
    /\ \A k \in 1..Len(avatar_calls) :
          \E i \in 1..Len(final_repos) :
              /\ final_repos[i].name = avatar_calls[k].repo
              /\ final_repos[i].avatar_b64 =
                    IF avatar_calls[k].image_data = <<"None">>
                       \/ avatar_calls[k].image_data[2] = 0
                    THEN <<"None">>
                    ELSE <<"b64", avatar_calls[k].image_data[2]>>
    /\ pc = "returned" => Len(final_repos) = Len(final_repos_data)

\* C16 witness: a run has returned two repositories, the avatar request of
\* the first having failed and that of the second having yielded content.
C16_Witness ==
    /\ pc = "returned"
    /\ Len(avatar_calls) = 2
    /\ avatar_calls[1].image_data = <<"None">>
    /\ avatar_calls[2].image_data = <<"bytes", 3>>
    /\ final_repos[1].avatar_b64 = <<"None">>
    /\ final_repos[2].avatar_b64 = <<"b64", 3>>

(***************************************************************************)
(* Properties of calculate_repo_rank.                                      *)
(***************************************************************************)
Tiers == {"S", "A", "B", "C", "D"}

\* the rank levels of tier t
LevelsOf(t) == {t, t \o "+", t \o "-"}

RankDone == pf.op = "rank" /\ pf.done

\* C17: the tier of the result depends on stars alone, with strict
\* thresholds: S above 10000, A above 1000, B above 100, C above 10, else D,
\* for every total_repo_commits.
C17_BaseTier ==
    RankDone =>
        /\ pf.stars > 10000 => pf.rank_level \in LevelsOf("S")
        /\ (1000 < pf.stars /\ pf.stars <= 10000) => pf.rank_level \in LevelsOf("A")
        /\ (100 < pf.stars /\ pf.stars <= 1000) => pf.rank_level \in LevelsOf("B")
        /\ (10 < pf.stars /\ pf.stars <= 100) => pf.rank_level \in LevelsOf("C")
        /\ pf.stars <= 10 => pf.rank_level \in LevelsOf("D")

\* C17 witness: 10000 stars are ranked in tier A.
C17_Witness ==
    RankDone /\ pf.stars = 10000 /\ pf.rank_level \in LevelsOf("A")

C20_NeverDMinus == RankDone => pf.rank_level # "D-"

\* C20 amended: "D-" is returned exactly for at most 10 stars and a commit
\* total between 0 and 100 exclusive, "D+" exactly for at most 10 stars and a
\* commit total above 5000.
C20_DLevels ==
    RankDone =>
        /\ pf.rank_level = "D-" <=>
              (pf.stars <= 10 /\ 0 < pf.total_repo_commits /\ pf.total_repo_commits < 100)
        /\ pf.rank_level = "D+" <=> (pf.stars <= 10 /\ pf.total_repo_commits > 5000)

\* C20 witness: 0 stars and 50 commits have been ranked "D-".
C20_Witness ==
    RankDone /\ pf.stars = 0 /\ pf.total_repo_commits = 50 /\ pf.rank_level = "D-"

\* C20 witness of "D+": 0 stars and 6000 commits.
C20_WitnessDPlus ==
    RankDone /\ pf.stars = 0 /\ pf.total_repo_commits = 6000 /\ pf.rank_level = "D+"

(***************************************************************************)
(* Properties of calculate_user_rank.                                      *)
(***************************************************************************)
UserRankDone == pf.op = "user_rank" /\ pf.calls > 0

LevelIndex(level) == CHOOSE i \in 1..Len(LEVELS) : LEVELS[i] = level

\* C21: the level returned is the level paired with the smallest threshold
\* that is at least the percentile returned (a percentile on a threshold
\* belongs to the better band), and "C" when the percentile exceeds 100.
C21_TierBanding ==
    UserRankDone =>
        \/ /\ ~AtMost(pf.result.percentile, Len(THRESHOLDS))
           /\ pf.result.level = "C"
        \/ \E i \in 1..Len(THRESHOLDS) :
              /\ pf.result.level = LEVELS[i]
              /\ AtMost(pf.result.percentile, i)
              /\ \A j \in 1..(i - 1) : ~AtMost(pf.result.percentile, j)

\* C21 witness: a percentile of exactly 25 has been given level "A".
C21_Witness ==
    /\ UserRankDone
    /\ 2 * pf.result.percentile = THRESHOLDS[3] * TOTAL_WEIGHT * SCALE
    /\ pf.result.level = "A"

\* C21 witness of the default: a percentile above 100 has level "C".
C21_WitnessAbove100 ==
    /\ UserRankDone
    /\ ~AtMost(pf.result.percentile, Len(THRESHOLDS))
    /\ pf.result.level = "C"

NonNegative(a) ==
    /\ a.commits >= 0 /\ a.prs >= 0 /\ a.issues >= 0
    /\ a.reviews >= 0 /\ a.stars >= 0 /\ a.followers >= 0

\* C22: when one metric grows, the others and all_commits being the same
\* and none negative, the percentile does not grow and the level does not
\* get worse; all metrics 0 give percentile 100 and level "C".
C22_Monotone ==
    /\ (pf.op = "user_rank" /\ pf.calls = 2 /\ NonNegative(pf.was)) =>
            /\ pf.result.percentile <= pf.before.percentile
            /\ LevelIndex(pf.result.level) <= LevelIndex(pf.before.level)
    /\ (UserRankDone
         /\ pf.args.commits = 0 /\ pf.args.prs = 0 /\ pf.args.issues = 0
         /\ pf.args.reviews = 0 /\ pf.args.stars = 0 /\ pf.args.followers = 0) =>
            /\ pf.result.percentile = 100 * TOTAL_WEIGHT * SCALE
            /\ pf.result.level = "C"

\* C22 witness: stars have grown from 0 between two calls and the
\* percentile is smaller and the level better than before.
C22_Witness ==
    /\ pf.op = "user_rank"
    /\ pf.calls = 2
    /\ pf.grown = "stars"
    /\ NonNegative(pf.was)
    /\ pf.result.percentile < pf.before.percentile
    /\ LevelIndex(pf.result.level) < LevelIndex(pf.before.level)

(***************************************************************************)
(* Properties of is_repo_excluded.                                         *)
(***************************************************************************)
ExcludedDone == pf.op = "excluded" /\ pf.calls > 0

\* the part of the name a pattern is compared with, letter case apart: the
\* full name for a pattern with "/", the trailing segment otherwise
ComparedWith(name, pattern) ==
    IF HasSlash(pattern) THEN Lower(name) ELSE LastSegment(Lower(name))

\* C23: the result is true iff some pattern of the list matches, a pattern
\* without "/" being compared with the trailing segment of the name only
\* and a pattern with "/" with the full name; it is false for the empty list.
C23_PatternScoping ==
    ExcludedDone =>
        /\ pf.result <=>
              \E k \in 1..Len(pf.exclude_patterns) :
                  GlobMatch(ComparedWith(pf.repo_name, pf.exclude_patterns[k]),
                            Lower(pf.exclude_patterns[k]))
        /\ pf.exclude_patterns = <<>> => ~pf.result
        /\ (pf.exclude_patterns = << <<"a">> >> /\ pf.repo_name = <<"z", "/", "a">>)
              => pf.result
        /\ (pf.exclude_patterns = << <<"a">> >> /\ pf.repo_name = <<"a", "/", "z">>)
              => ~pf.result
        /\ (pf.exclude_patterns = << <<"z", "/", "*">> >>
            /\ pf.repo_name = <<"a", "/", "z">>) => ~pf.result

\* C23 witness: a pattern without "/" has excluded a name by its trailing
\* segment, the full name not matching the pattern.
C23_Witness ==
    /\ ExcludedDone
    /\ pf.result
    /\ Len(pf.exclude_patterns) = 1
    /\ ~HasSlash(pf.exclude_patterns[1])
    /\ HasSlash(pf.repo_name)
    /\ ~GlobMatch(Lower(pf.repo_name), Lower(pf.exclude_patterns[1]))

\* C23 witness of the owner part: a pattern without "/" that matches the
\* owner alone has not excluded the name.
C23_WitnessOwnerIgnored ==
    /\ ExcludedDone
    /\ ~pf.result
    /\ pf.exclude_patterns = << <<"a">> >>
    /\ pf.repo_name = <<"a", "/", "z">>

\* C24: a call on arguments that differ from those of the call before in
\* letter case only returns what the call before returned.
C24_CaseInsensitive ==
    (pf.op = "excluded" /\ pf.calls = 2) => pf.result = pf.before

\* C24 witness: a name in upper case has been excluded by a pattern in
\* lower case after the pattern itself had been recased.
C24_Witness ==
    /\ pf.op = "excluded"
    /\ pf.calls = 2
    /\ pf.result
    /\ pf.repo_name = <<"Z", "/", "A">>
    /\ pf.exclude_patterns = << <<"z", "/", "*">> >>

(***************************************************************************)
(* Further properties of fetch_contributor_stats.                          *)
(***************************************************************************)
\* C25: every counter of every record is the total of the counts of the
\* entries of its kind merged for the repository, and a step of
\* process_list changes no counter but that of the list it reads, in the
\* record of the entry it reads.
C25_CounterTotals ==
    /\ [](/\ \A i \in 1..Len(raw_repos_map) : \A k \in TypeSet :
               raw_repos_map[i][k] = sums[<<raw_repos_map[i].name, k>>]
          /\ \A i \in 1..Len(final_repos) : \A k \in TypeSet :
               final_repos[i][k] = sums[<<final_repos[i].name, k>>])
    /\ [][\A i \in 1..Len(raw_repos_map) : \A k \in TypeSet :
            raw_repos_map'[i][k] # raw_repos_map[i][k] =>
                /\ k = ContribTypes[kind]
                /\ item'.nameWithOwner = raw_repos_map[i].name]_vars

\* C25 witness: a run over two years has returned a record with counts in
\* two kinds, issues and reviews.
C25_Witness ==
    /\ pc = "returned"
    /\ Len(queries) = 2
    /\ \E i \in 1..Len(final_repos) :
         /\ final_repos[i].issues = 2
         /\ final_repos[i].reviews = 1
         /\ final_repos[i].commits = 0

\* the record of the accumulator named n
MapRecord(n) == raw_repos_map[IndexOf(raw_repos_map, n)]

\* C26: the rank_level of every assembled and every returned record is
\* calculate_repo_rank of the stars and total_repo_commits its record has in
\* the accumulator after the last year.
C26_RankFromFinalAccumulator ==
    Assembled =>
        /\ \A i \in 1..Len(final_repos_data) :
              final_repos_data[i].rank_level =
                  calculate_repo_rank(MapRecord(final_repos_data[i].name).stars,
                      MapRecord(final_repos_data[i].name).total_repo_commits)
        /\ \A i \in 1..Len(final_repos) :
              final_repos[i].rank_level = final_repos_data[i].rank_level

\* C26 witness: a repository first listed without commit history, then, in
\* the pull-request list of the same year, with a history of 6000 commits,
\* has been returned with the "+" of that total.
C26_Witness ==
    /\ pc = "returned"
    /\ Len(queries) = 1
    /\ \E i \in 1..Len(final_repos) :
         /\ final_repos[i].commits = 2
         /\ final_repos[i].prs = 1
         /\ final_repos[i].rank_level = "B+"

\* the assembled records whose avatar the run has asked for or skipped
Handled == IF pc = "raised" THEN <<>> ELSE SubSeq(final_repos_data, 1, Len(final_repos))

\* the records that have an avatar URL
WithUrl(rs) == SelectSeq(rs, LAMBDA r : r.avatar_url # "")

\* C27: avatars are asked for only once final_repos_data is assembled: one
\* request for each record handled that has an avatar URL, in their order,
\* hence at most limit requests and none for an excluded repository.
C27_AvatarsOnlyForSurvivors ==
    /\ avatar_calls # <<>> => Assembled
    /\ Assembled =>
        /\ Len(avatar_calls) = Len(WithUrl(Handled))
        /\ \A k \in 1..Len(avatar_calls) :
              /\ avatar_calls[k].url = WithUrl(Handled)[k].avatar_url
              /\ avatar_calls[k].repo = WithUrl(Handled)[k].name
        /\ Len(avatar_calls) <= limit
        /\ \A k \in 1..Len(avatar_calls) :
              ~is_repo_excluded(avatar_calls[k].repo, exclude_repo)

\* C27 witness: of two accumulated repositories with an avatar URL, one cut
\* by the limit, the run has asked for one avatar.
C27_Witness ==
    /\ pc = "returned"
    /\ Len(raw_repos_map) = 2
    /\ \A i \in 1..2 : raw_repos_map[i].avatar_url # ""
    /\ Candidates = {1, 2}
    /\ limit = 1
    /\ Len(avatar_calls) = 1

\* C27 witness of the empty URL: a returned record without avatar URL, no
\* request.
C27_WitnessNoUrl ==
    /\ pc = "returned"
    /\ Len(final_repos) = 1
    /\ final_repos_data[1].avatar_url = ""
    /\ avatar_calls = <<>>

\* C29: records are created at the end of the accumulator and stay where
\* they are, and assembled records with equal stars are in the order of
\* their creation.
C29_TieOrder ==
    /\ [](Assembled =>
            \A i, j \in 1..Len(final_repos_data) :
                (i < j /\ final_repos_data[i].stars = final_repos_data[j].stars) =>
                    /\ IndexOf(raw_repos_map, final_repos_data[i].name)
                         < IndexOf(raw_repos_map, final_repos_data[j].name)
                    /\ pc = "returned" =>
                         /\ final_repos[i].name = final_repos_data[i].name
                         /\ final_repos[j].name = final_repos_data[j].name)
    /\ [][/\ Len(raw_repos_map') \in {Len(raw_repos_map), Len(raw_repos_map) + 1}
          /\ \A i \in 1..Len(raw_repos_map) :
               raw_repos_map'[i].name = raw_repos_map[i].name
          /\ Len(raw_repos_map') > Len(raw_repos_map) =>
               raw_repos_map'[Len(raw_repos_map')].name = item'.nameWithOwner]_vars

\* C29 witness: two repositories with equal stars have been returned in the
\* order of their creation.
C29_Witness ==
    /\ pc = "returned"
    /\ Len(final_repos) = 2
    /\ final_repos[1].stars = final_repos[2].stars
    /\ raw_repos_map[1].name = final_repos[1].name
    /\ raw_repos_map[2].name = final_repos[2].name

Activity(r) == r.commits + r.prs + r.issues + r.reviews

\* C30: every record of the accumulator and of the output counts at least
\* one contribution; a repository whose entries all have count 0 has no
\* record; no counter of a record decreases.
C30_RealActivity ==
    /\ [](/\ \A i \in 1..Len(raw_repos_map) : Activity(raw_repos_map[i]) >= 1
          /\ \A i \in 1..Len(final_repos_data) : Activity(final_repos_data[i]) >= 1
          /\ \A i \in 1..Len(final_repos) : Activity(final_repos[i]) >= 1
          /\ \A n \in RepoNames :
               (\A k \in TypeSet : sums[<<n, k>>] = 0) => IndexOf(raw_repos_map, n) = 0)
    /\ [][\A i \in 1..Len(raw_repos_map) : \A k \in TypeSet :
            raw_repos_map'[i][k] >= raw_repos_map[i][k]]_vars

\* C30 witness: process_list has read an entry with count 0 of a public
\* repository of another owner, and the repository has no record.
C30_Witness ==
    /\ pc = "list"
    /\ item.missing = "none"
    /\ item.count = 0
    /\ ForeignPublic(item)
    /\ IndexOf(raw_repos_map, item.nameWithOwner) = 0

(***************************************************************************)
(* Properties of fetch_stats.                                              *)
(***************************************************************************)
\* C28: a run of fetch_stats does not raise in the pagination, whatever the
\* transport does; it returns the sum of the stars of the pages it received;
\* it asks for no page after a failed request or a response without user,
\* and for no page twice.
C28_PaginationDegrades ==
    pf.op = "stats" =>
        /\ pf.pc # "raised"
        /\ pf.pc = "returned" => pf.total_stars = pf.fetched
        /\ (pf.failed \/ pf.no_user) => ~pf.has_next_page
        /\ \A i, j \in 1..Len(pf.requests) :
              i # j => pf.requests[i] # pf.requests[j]

\* what holds of the pagination as it is: the sum and the stop on a
\* response without user, in the runs that do not raise
C28_WithoutTransportFailure ==
    (pf.op = "stats" /\ pf.pc # "raised") =>
        /\ pf.pc = "returned" => pf.total_stars = pf.fetched
        /\ pf.no_user => ~pf.has_next_page
        /\ ~pf.failed
        /\ \A i, j \in 1..Len(pf.requests) :
              i # j => pf.requests[i] # pf.requests[j]

====
